---- MODULE Spec2Model ----
(***************************************************************************)
(* Task discovery and namespace composition of taskfiles:                  *)
(*   find_and_import_tasks  (src/_discovery.py)                            *)
(*   get_root_ns            (src/src/taskfiles/__init__.py)                *)
(*                                                                         *)
(* A file name is a sequence of tokens (<<"git", ".py">>,                  *)
(* <<"_", "utils", ".py">>), so that startswith, endswith, stem and        *)
(* replace are computed on the name.  A dotted import string is a sequence *)
(* of tokens as well (<<"tasks", ".", "git">>).                            *)
(*                                                                         *)
(* The file system and the outcome of importing a module are inputs.  They *)
(* are revealed when the code first reads them and are recorded in `fs`    *)
(* and `loaded`: an unchanged file system and sys.modules answer a second  *)
(* call of the same process the same way.                                  *)
(*                                                                         *)
(* A task is identified by its name and by the module it was found in.     *)
(* Task names and module names are kept apart, so invoke's name-conflict   *)
(* ValueError between a task and a sub-collection cannot occur.            *)
(* Exceptions are subclasses of Exception.                                 *)
(***************************************************************************)
EXTENDS Naturals, Sequences, FiniteSets, TLC

\* ---------------------------------------------------------------- bounds
\* The candidate files and directories of the file system discovery walks:
\* the built-in directory, local_tasks.py, the plugin root and the plugin
\* directories together.
MaxFiles == 4

\* The calls of the entry point a process makes after its first one.
MaxCalls == 1

\* ---------------------------------------------------------------- names
PY == ".py"
DOT == "."

Unbound == <<"<unbound>">>
None == <<"<None>">>
NoTask == <<>>

TaskNames == {"push", "lint"}

ExceptionKinds == {"ImportError", "SyntaxError", "ValueError"}

Range(s) == {s[i] : i \in 1..Len(s)}

\* All orders in which a directory listing may enumerate at most n of S.
Listings(S, n) ==
    UNION { { s \in [1..k -> S] : \A i, j \in 1..k : i # j => s[i] # s[j] }
            : k \in 0..n }

startswith(s, tok) == Len(s) > 0 /\ s[1] = tok
endswith(s, tok) == Len(s) > 0 /\ s[Len(s)] = tok

\* Path.stem: the name without its last suffix.
stem(s) == IF Len(s) > 1 /\ endswith(s, PY) THEN SubSeq(s, 1, Len(s) - 1) ELSE s

\* str.replace(".py", ""): every occurrence is removed.
replace_py(s) == SelectSeq(s, LAMBDA t : t # PY)

is_a_task_module(p) ==
    IF startswith(p, "_") THEN FALSE
    ELSE IF p = <<"tasks", PY>> THEN FALSE
    ELSE IF p = <<"conftest", PY>> THEN FALSE
    ELSE TRUE

\* A directory entry: its name, what lstat finds there (a regular file, a
\* directory or a symbolic link) and, for a link, what the link resolves to
\* (`target`) and what the text of the link names when it is resolved against
\* the working directory (`at_cwd`).
NoLink == [target |-> "n/a", at_cwd |-> "n/a"]

\* Path.is_file, Path.is_dir: stat follows a symbolic link.
is_file(p) == p.kind = "file" \/ (p.kind = "symlink" /\ p.link.target = "file")
is_dir(p) == p.kind = "dir" \/ (p.kind = "symlink" /\ p.link.target = "dir")

is_symlink(p) == p.kind = "symlink"

\* Path.readlink: the path the link holds, as written.  A relative one is
\* looked up from the working directory by whatever uses it next.
readlink(p) == [name |-> p.name, kind |-> p.link.at_cwd, link |-> NoLink]

is_path_a_file(p) ==
    IF is_file(p) THEN TRUE
    ELSE IF is_symlink(p) /\ is_file(readlink(p)) THEN TRUE
    ELSE FALSE

is_path_a_folder(p) ==
    IF p.name = <<"_", "_pycache__">> THEN FALSE
    ELSE IF is_dir(p) THEN TRUE
    ELSE IF is_symlink(p) /\ is_dir(readlink(p)) THEN TRUE
    ELSE FALSE

\* ------------------------------------------------------------ file system
\* What glob("*.py") may find in the built-in directory.
BuiltinFileNames ==
    { <<"git", PY>>, <<"core", PY>>, <<"_", "utils", PY>>,
      <<"conftest", PY>>, <<"tasks", PY>> }

\* The orders in which glob may enumerate at most n of them.  Only the order
\* of the files the loop imports is varied: the files the filter drops are
\* listed last, in the order of `dropped`.
BuiltinListings(n) ==
    LET dropped == << <<"_", "utils", PY>>, <<"conftest", PY>>, <<"tasks", PY>> >>
        kept == BuiltinFileNames \ Range(dropped)
    IN { l \o SelectSeq(dropped, LAMBDA f : f \in d) :
            l \in Listings(kept, n), d \in SUBSET Range(dropped) }
       \cap Listings(BuiltinFileNames, n)

\* What glob("*") may find in the internal plugin directory besides its
\* __init__.py.
PluginEntries ==
    { [name |-> <<"git", PY>>, kind |-> "file", link |-> NoLink],
      [name |-> <<"conftest", PY>>, kind |-> "file", link |-> NoLink],
      [name |-> <<"toolkit">>, kind |-> "dir", link |-> NoLink],
      [name |-> <<"_", "_pycache__">>, kind |-> "dir", link |-> NoLink] }

InitPy == [name |-> <<"_", "_init__", PY>>, kind |-> "file", link |-> NoLink]

\* The directory entries the classification is asked about: regular files,
\* directories and symbolic links, a link resolving to a file, to a
\* directory or to nothing, its text naming a file, a directory or nothing
\* from the working directory.
PathNames == { <<"git", PY>>, <<"toolkit">>, <<"_", "_pycache__">> }

PathEntries ==
    { [name |-> n, kind |-> k, link |-> NoLink] :
        n \in PathNames, k \in {"file", "dir"} }
    \cup { [name |-> n, kind |-> "symlink", link |-> [target |-> t, at_cwd |-> c]] :
        n \in PathNames, t \in {"file", "dir", "broken"},
        c \in {"file", "dir", "missing"} }

\* What glob("*.py") may find inside a plugin directory.
LooseFileNames ==
    { <<"extra", PY>>, <<"_", "helper", PY>>, <<"_", "_init__", PY>> }

\* The names pkgutil.walk_packages may yield for the taskfiles package, in
\* the order it yields them: pkgutil sorts the file names of a directory.
SubmoduleNames ==
    << <<"_", "program">>, <<"conftest">>, <<"core">>, <<"git">> >>

\* Places of the file system, the keys of `fs`.
BuiltinDir == <<"tasks">>
LocalTasksPy == <<"local_tasks", PY>>
PluginRoot == <<"tasks", "_plugins">>
PluginRootInit == <<"tasks", "_plugins", "__init__.py">>
PluginDir(d) == <<"tasks", "_plugins">> \o d
Package == <<"taskfiles">>

\* Path.is_absolute, on a path given by its parts.
is_absolute(p) == Len(p) > 0 /\ p[1] = "/"

\* `except Exception`
CaughtByException == ExceptionKinds

\* ------------------------------------------------------------ settings
\* The text of an environment variable is a sequence of tokens; a path is
\* the sequence of its parts, and ":" separates the paths of a list.
Unset == <<"<unset>">>

\* os.getenv(name, default)
getenv(v, default) == IF v = Unset THEN default ELSE v

\* ast.literal_eval of the texts the model draws: the Python value, or the
\* exception (ValueError for a name that is no literal, SyntaxError for
\* text that is no expression).
literal_eval(v) ==
    IF v \in {<<"True">>, <<"False">>, <<"0">>, <<"1">>, <<"None">>}
    THEN [raises |-> "none", value |-> v[1]]
    ELSE IF v \in {<<"yes">>, <<"true">>}
    THEN [raises |-> "ValueError", value |-> "n/a"]
    ELSE [raises |-> "SyntaxError", value |-> "n/a"]

\* bool(x), and the truth value `if x:` takes.
bool(x) == x \in {"True", "1"}

\* The setting, were a text that cannot be parsed to leave the default on.
parse_setting_keeps_default(v, default) ==
    LET r == literal_eval(getenv(v, default))
    IN IF r.raises \in CaughtByException THEN bool(literal_eval(default).value)
       ELSE bool(r.value)

\* try: ast.literal_eval(os.getenv(name, default)) / except Exception: False.
\* The model keeps the truth value of the setting.
parse_setting(v, default) ==
    LET r == literal_eval(getenv(v, default))
    IN IF r.raises \in CaughtByException THEN FALSE ELSE bool(r.value)

\* str.split(":")
RECURSIVE split(_)
split(s) ==
    LET colons == {i \in 1..Len(s) : s[i] = ":"}
    IN IF colons = {} THEN <<s>>
       ELSE LET i == CHOOSE i \in colons : \A j \in colons : i <= j
            IN <<SubSeq(s, 1, i - 1)>> \o split(SubSeq(s, i + 1, Len(s)))

\* TASKS_PLUGIN_DIRS = os.getenv("TASKS_PLUGIN_DIRS", "").split(":")
parse_plugin_dirs(v) == split(getenv(v, <<>>))

\* The environments of a process: TASKS_KEEP_MODULE_NAME_PREFIX,
\* TASKS_LOAD_PLUGINS and TASKS_PLUGIN_DIRS, each unset or set to a text.
SettingTexts ==
    {Unset, <<"True">>, <<"False">>, <<"0">>, <<"yes">>, <<>>}

PluginDirTexts ==
    {Unset, <<"/", "opt", "plugins">>, <<"plugins">>,
     <<"/", "opt", "plugins", ":", "plugins">>}

Environs == [KEEP : SettingTexts, LOAD : SettingTexts, DIRS : PluginDirTexts]

\* str(internal_plugins) for the absolute directory `where`.
InternalPlugins == <<"/">> \o PluginRoot

\* What a caller passes as `where`: a Path (an absolute directory); a str
\* naming an attribute of the module that is absent, None, an empty sequence
\* or a sequence of directories; an object of another type.
WhereArgs ==
    { [type |-> "Path", attribute |-> "n/a"],
      [type |-> "str", attribute |-> "absent"],
      [type |-> "str", attribute |-> "None"],
      [type |-> "str", attribute |-> "empty"],
      [type |-> "str", attribute |-> "dirs"],
      [type |-> "int", attribute |-> "n/a"] }

\* The exception the argument resolution of find_and_import_tasks ends with
\* ("none" when it binds `path`).  globals().get gives None for an absent
\* attribute; unpacking None is a TypeError; unpacking an empty sequence is
\* the ValueError the handler catches, and the handler's message reads the
\* local `path`, which the failed unpacking did not bind.
resolve_where(w) ==
    IF w.type = "Path" THEN "none"
    ELSE IF w.type = "str"
    THEN IF w.attribute \in {"absent", "None"} THEN "TypeError"
         ELSE IF w.attribute = "empty" THEN "UnboundLocalError"
         ELSE "none"
    ELSE "NotImplementedError"

\* Directories discovery puts on sys.path: the repository's top level and ".".
Toplevel == <<"<toplevel>">>
Cwd == <<".">>

\* ---------------------------------------------------------------- modules
\* The outcome of importing a module: it raises, or it yields a module whose
\* __dict__ holds the tasks named.
Outcomes ==
    { [ok |-> FALSE, tasks |-> {}] }
    \cup { [ok |-> TRUE, tasks |-> t] : t \in SUBSET TaskNames }

\* The exception an import with outcome o raises ("none" when it succeeds).
Raises(o) == IF o.ok THEN {"none"} ELSE ExceptionKinds

\* `except (ImportError, SyntaxError)`
CaughtByImportSubmodules == {"ImportError", "SyntaxError"}

EmptyNs == [tasks |-> [t \in TaskNames |-> NoTask], collections |-> <<>>]

VARIABLES
    entry,                    \* which entry point this process calls
    keep_module_name_prefix,  \* the flatten/prefix setting of the call
    TASKS_LOAD_PLUGINS,
    TASKS_EXECUTABLE,
    TASKS_PLUGIN_DIRS,
    environ,                  \* os.environ when the module was imported
    where,                    \* the argument `where` of find_and_import_tasks
    pc,
    raised,                   \* the exception that left the call, or "none"
    fs,                       \* place -> what the file system holds there
    nfiles,                   \* candidate files and directories in fs
    loaded,                   \* import string -> outcome of importing it
    task_files,               \* built-in candidates still to import
    module,                   \* the local variable `module`
    import_string,            \* the local variable `import_string`
    populated,                \* the last call of populate and what it returned
    global_ns,                \* the Collection being built
    stderr,                   \* lines written to sys.stderr
    stdout,                   \* lines written to sys.stdout
    sys_path,                 \* entries discovery added to sys.path
    to_load,                  \* plugin entries still to process
    plugin,                   \* the plugin directory being loaded file by file
    py_files,                 \* its files still to import
    walk,                     \* get_root_ns: submodules walk_packages still yields
    all_submodules,           \* get_root_ns: keys of import_submodules' result
    valid_submodules,         \* get_root_ns: submodules still to merge
    log,                      \* get_root_ns: records handed to logging
    calls,                    \* calls of the entry point completed before this one
    prev,                     \* what the previous call returned, and its setting
    classified                \* what is_path_a_file and is_path_a_folder returned

config == <<entry, TASKS_LOAD_PLUGINS, TASKS_EXECUTABLE, environ, where>>
world == <<fs, nfiles, loaded>>
locals == <<module, import_string, populated>>
streams == <<stderr, stdout>>
pluginvars == <<to_load, plugin, py_files>>
grnvars == <<walk, all_submodules, valid_submodules, log>>
callvars == <<keep_module_name_prefix, calls, prev>>

vars == <<entry, keep_module_name_prefix, TASKS_LOAD_PLUGINS, TASKS_EXECUTABLE,
          TASKS_PLUGIN_DIRS, environ, where, pc,
          raised, fs, nfiles, loaded, task_files, module, import_string, populated,
          global_ns, stderr, stdout, sys_path, to_load, plugin, py_files, walk,
          all_submodules, valid_submodules, log, calls, prev, classified>>

\* What the file system holds at place k: as recorded, or any of `choices`
\* when the place is read for the first time.
Read(k, choices) == IF k \in DOMAIN fs THEN {fs[k]} ELSE choices

Record(f, k, v) ==
    IF k \in DOMAIN f THEN f
    ELSE [x \in DOMAIN f \cup {k} |-> IF x = k THEN v ELSE f[x]]

\* The number of files a first reading of place k adds to the file system.
Added(k, n) == IF k \in DOMAIN fs THEN 0 ELSE n

\* The place of the file system that holds the text of module s.
Source(s) == <<"<source>">> \o s

\* The Task objects in the __dict__ of module s once its text in the file
\* system f has run: the tasks it defines, and the names that
\* `from m import name` binds to a task m defines.
module_dict(f, s) ==
    f[Source(s)].defines
    \cup {i.name : i \in {j \in f[Source(s)].imports :
                            /\ Source(j.from) \in DOMAIN f
                            /\ j.name \in f[Source(j.from)].defines}}

\* import_module, were it to run a module again that this process imported
\* before.
ImportOutcomes_reexecutes(s) == Outcomes

\* import_module: the outcomes an import of s can have in this process.  A
\* module imported before is found again as it was; <package>.__init__ runs
\* the file the package ran; a module whose text is known runs it.
ImportOutcomes(s) ==
    IF s \in DOMAIN loaded THEN {loaded[s]}
    ELSE IF Source(s) \in DOMAIN fs
    THEN {[ok |-> TRUE, tasks |-> module_dict(fs, s)]}
    ELSE IF Len(s) > 3 /\ SubSeq(s, Len(s) - 2, Len(s)) = <<DOT, "_", "_init__">>
            /\ SubSeq(s, 1, Len(s) - 3) \in DOMAIN loaded
         THEN {loaded[SubSeq(s, 1, Len(s) - 3)]}
         ELSE Outcomes

\* The line import_with_exception_details and the local phase print for a
\* module that failed to import.
Diagnostic(istr, name) == [module |-> istr, name |-> name]

\* import_with_exception_details, were it to hand back a module object for
\* an import that raised.
import_with_exception_details_keeps_module(exc, istr, name, err) ==
    IF exc \in CaughtByException
    THEN [module |-> istr, stderr |-> Append(err, Diagnostic(istr, name))]
    ELSE [module |-> istr, stderr |-> err]

\* import_with_exception_details(import_string, name), the import raising
\* exc: the module, or None after one line on stderr.
import_with_exception_details(exc, istr, name, err) ==
    IF exc \in CaughtByException
    THEN [module |-> None, stderr |-> Append(err, Diagnostic(istr, name))]
    ELSE [module |-> istr, stderr |-> err]

\* add_tasks, were add_task to keep the task a name already resolves to.
add_tasks_first_wins(ns, mod, tasks) ==
    [ns EXCEPT !.tasks = [t \in TaskNames |->
        IF t \in tasks /\ ns.tasks[t] = NoTask THEN mod ELSE ns.tasks[t]]]

\* Collection.add_task for every Task of the module's __dict__.
add_tasks(ns, mod, tasks) ==
    [ns EXCEPT !.tasks = [t \in TaskNames |-> IF t \in tasks THEN mod ELSE ns.tasks[t]]]

\* Collection.add_collection(Collection.from_module(module, name), name).
add_collection(ns, mod, tasks, name) ==
    [ns EXCEPT !.collections =
        [n \in DOMAIN ns.collections \cup {name} |->
            IF n = name
            THEN [t \in TaskNames |-> IF t \in tasks THEN mod ELSE NoTask]
            ELSE ns.collections[n]]]

\* populate, were it to report in either mode whether the module was empty.
populate_found_when_empty(ns, prefix, mod, tasks, name) ==
    IF prefix
    THEN [ns |-> add_collection(ns, mod, tasks, name), found |-> tasks = {}]
    ELSE [ns |-> add_tasks(ns, mod, tasks), found |-> tasks = {}]

\* populate(module, name) of find_and_import_tasks, for a module object.
populate(ns, prefix, mod, tasks, name) ==
    IF prefix
    THEN [ns |-> add_collection(ns, mod, tasks, name), found |-> TRUE]
    ELSE [ns |-> add_tasks(ns, mod, tasks), found |-> tasks # {}]

\* The record of a populate call: the module merged, the name it was merged
\* under and the value returned.
Call(mod, name, found) == [module |-> mod, name |-> name, found |-> found]

\* populate was not called yet.
NoCall == [module |-> None, name |-> None, found |-> FALSE]

\* Collection.from_module(module) names the collection after the last
\* segment of the module's __name__.
module_name(istr) ==
    LET dots == {i \in 1..Len(istr) : istr[i] = DOT}
        last == IF dots = {} THEN 0 ELSE CHOOSE i \in dots : \A j \in dots : j <= i
    IN SubSeq(istr, last + 1, Len(istr))

\* No call was made yet, over the file system f (the places of it no code
\* has read yet).
Fresh(f) ==
    /\ raised = "none"
    /\ fs = f
    /\ nfiles = 0
    /\ loaded = <<>>
    /\ task_files = <<>>
    /\ module = Unbound
    /\ import_string = Unbound
    /\ populated = NoCall
    /\ global_ns = EmptyNs
    /\ stderr = <<>>
    /\ stdout = <<>>
    /\ sys_path = <<>>
    /\ to_load = <<>>
    /\ plugin = <<>>
    /\ py_files = <<>>
    /\ walk = <<>>
    /\ all_submodules = <<>>
    /\ valid_submodules = <<>>
    /\ log = <<>>
    /\ calls = 0
    /\ prev = [ns |-> EmptyNs, prefix |-> FALSE]
    /\ classified = <<>>

\* The process after the module was imported in the environment env, over
\* the file system f (the places of it no code has read yet).  The caller
\* passes the flatten setting.  get_root_ns does not read TASKS_LOAD_PLUGINS.
Start(f, env) ==
    /\ entry \in {"find_and_import_tasks", "get_root_ns"}
    /\ environ = env
    /\ keep_module_name_prefix \in BOOLEAN
    /\ TASKS_LOAD_PLUGINS = parse_setting(env.LOAD, <<"True">>)
    /\ TASKS_EXECUTABLE \in BOOLEAN
    /\ entry = "find_and_import_tasks" => ~TASKS_EXECUTABLE
    /\ entry = "get_root_ns" => env.LOAD = Unset
    /\ TASKS_PLUGIN_DIRS = parse_plugin_dirs(env.DIRS)
    /\ where \in WhereArgs
    /\ entry = "get_root_ns" => where.type = "Path"
    /\ pc = "start"
    /\ Fresh(f)

\* The plugin-loading toggle is left unset or turned off; the plugin
\* directories are left unset.
Init ==
    \E load \in {Unset, <<"False">>} :
        Start(<<>>, [KEEP |-> Unset, LOAD |-> load, DIRS |-> Unset])

\* ------------------------------------------------- find_and_import_tasks
\* `if isinstance(where, Path): ... else: raise NotImplementedError(msg)`
ResolveWhere ==
    /\ pc = "start"
    /\ entry = "find_and_import_tasks"
    /\ raised' = resolve_where(where)
    /\ pc' = IF resolve_where(where) = "none" THEN "glob" ELSE "raised"
    /\ UNCHANGED <<config, classified, TASKS_PLUGIN_DIRS, callvars, world, task_files, locals,
                   global_ns, streams, sys_path, pluginvars, grnvars>>

\* task_files = [p for p in Path(path).glob("*.py") if is_a_task_module(p)]
GlobBuiltin ==
    /\ pc = "glob"
    /\ entry = "find_and_import_tasks"
    /\ \E l \in Read(BuiltinDir, BuiltinListings(MaxFiles)) :
        /\ fs' = Record(fs, BuiltinDir, l)
        /\ nfiles' = nfiles + Added(BuiltinDir, Len(l))
        /\ task_files' = SelectSeq(l, is_a_task_module)
    /\ pc' = "builtin"
    /\ UNCHANGED <<config, classified, TASKS_PLUGIN_DIRS, callvars, raised, loaded, locals, global_ns, streams,
                   sys_path, pluginvars, grnvars>>

\* One iteration of `for task_file in task_files`.
ImportBuiltin ==
    /\ pc = "builtin"
    /\ task_files # <<>>
    /\ LET name == stem(Head(task_files))
           istr == <<"tasks", DOT>> \o name
       IN \E o \in ImportOutcomes(istr) : \E exc \in Raises(o) :
            LET r == import_with_exception_details(exc, istr, name, stderr)
                p == populate(global_ns, keep_module_name_prefix, istr, o.tasks, name)
            IN /\ loaded' = Record(loaded, istr, o)
               /\ import_string' = istr
               /\ module' = r.module
               /\ stderr' = r.stderr
               /\ IF r.module = None
                  THEN UNCHANGED <<global_ns, populated>>
                  ELSE /\ global_ns' = p.ns
                       /\ populated' = Call(istr, name, p.found)
    /\ task_files' = Tail(task_files)
    /\ UNCHANGED <<config, classified, TASKS_PLUGIN_DIRS, callvars, pc, raised, fs, nfiles, stdout, sys_path,
                   pluginvars, grnvars>>

\* The loop over task_files, were control to leave it with files pending.
builtin_loop_over_early == TRUE

\* `for task_file in task_files` is exhausted: control reaches the statement
\* after the loop.
builtin_loop_over == task_files = <<>>

\* `if add_repo_root_to_sys_path(): ...`: the import of local_tasks and the
\* populate call that follows the try statement.
LocalOverride ==
    /\ pc = "builtin"
    /\ builtin_loop_over
    /\ \E found \in Read(LocalTasksPy, {FALSE} \cup {nfiles < MaxFiles}) :
        /\ fs' = Record(fs, LocalTasksPy, found)
        /\ nfiles' = nfiles + Added(LocalTasksPy, IF found THEN 1 ELSE 0)
        /\ IF ~found
           THEN /\ pc' = "plugins"
                /\ UNCHANGED <<raised, loaded, locals, global_ns, streams, sys_path>>
           ELSE \E o \in ImportOutcomes(<<"local_tasks">>) : \E exc \in Raises(o) :
                LET name == <<"local_tasks">>
                    m == IF exc \in CaughtByException THEN module ELSE name
                IN /\ sys_path' = <<Toplevel>> \o sys_path
                   /\ loaded' = Record(loaded, name, o)
                   /\ stderr' = IF exc \in CaughtByException
                                THEN Append(stderr, Diagnostic(name, name))
                                ELSE stderr
                   /\ module' = m
                   /\ IF m = Unbound
                      THEN /\ raised' = "UnboundLocalError"
                           /\ pc' = "raised"
                           /\ UNCHANGED <<global_ns, populated>>
                      ELSE IF m = None
                      THEN /\ raised' = "AttributeError"
                           /\ pc' = "raised"
                           /\ UNCHANGED <<global_ns, populated>>
                      ELSE LET p == populate(global_ns, keep_module_name_prefix,
                                             m, loaded'[m].tasks, name)
                           IN /\ global_ns' = p.ns
                              /\ populated' = Call(m, name, p.found)
                              /\ pc' = "plugins"
                              /\ UNCHANGED raised
                   /\ UNCHANGED <<import_string, stdout>>
    /\ UNCHANGED <<config, classified, TASKS_PLUGIN_DIRS, callvars, task_files, pluginvars, grnvars>>

\* `if TASKS_LOAD_PLUGINS:`, were the plugin phase to run whatever the toggle.
plugin_phase_always == TRUE

\* `if TASKS_LOAD_PLUGINS:`
plugin_phase == TASKS_LOAD_PLUGINS

\* The entries of TASKS_PLUGIN_DIRS the loop of the plugin phase has to ask
\* the file system about: `path.is_absolute() and path.exists()`.
ExternalUnread ==
    {e \in Range(TASKS_PLUGIN_DIRS) :
        is_absolute(e) /\ e # InternalPlugins /\ e \notin DOMAIN fs}

\* print(f"Not implemented yet. Skipping {plugin_dir}") for each entry that
\* is absolute and exists in the file system f.
NotImplementedNotices(f) ==
    LET found == SelectSeq(TASKS_PLUGIN_DIRS,
                    LAMBDA e : is_absolute(e) /\ (e = InternalPlugins \/ f[e]))
    IN [i \in 1..Len(found) |-> [not_implemented |-> found[i]]]

\* `if TASKS_LOAD_PLUGINS:` up to the construction of to_load.
PluginRegistration ==
    /\ pc = "plugins"
    /\ IF ~plugin_phase
       THEN /\ to_load' = <<>>
            /\ pc' = "plugin"
            /\ UNCHANGED <<fs, nfiles, stdout, raised, TASKS_PLUGIN_DIRS>>
       ELSE \E ex \in [ExternalUnread -> BOOLEAN] :
            LET f == [k \in DOMAIN fs \cup ExternalUnread |->
                        IF k \in DOMAIN fs THEN fs[k] ELSE ex[k]]
            IN /\ stdout' = stdout \o NotImplementedNotices(f)
               /\ IF where.type # "Path"
                  THEN \* internal_plugins = where / "_plugins", where a str
                       /\ raised' = "TypeError"
                       /\ pc' = "raised"
                       /\ to_load' = <<>>
                       /\ fs' = f
                       /\ UNCHANGED <<nfiles, TASKS_PLUGIN_DIRS>>
                  ELSE /\ pc' = "plugin"
                       /\ UNCHANGED raised
                       /\ \E is_package \in Read(PluginRootInit, BOOLEAN) :
                            IF ~is_package
                            THEN /\ to_load' = <<>>
                                 /\ fs' = Record(f, PluginRootInit, is_package)
                                 /\ UNCHANGED <<nfiles, TASKS_PLUGIN_DIRS>>
                            ELSE \E l \in Read(PluginRoot,
                                              Listings(PluginEntries, MaxFiles - nfiles)) :
                                 /\ TASKS_PLUGIN_DIRS' =
                                        Append(TASKS_PLUGIN_DIRS, InternalPlugins)
                                 /\ to_load' = SelectSeq(<<InitPy>> \o l,
                                        LAMBDA e : ~(e.name = <<"_", "_init__", PY>>))
                                 /\ fs' = Record(Record(f, PluginRootInit, is_package),
                                                 PluginRoot, l)
                                 /\ nfiles' = nfiles + Added(PluginRoot, Len(l))
    /\ UNCHANGED <<config, classified, callvars, loaded, task_files, locals, global_ns,
                   stderr, sys_path, plugin, py_files, grnvars>>

\* One iteration of `for plugin in to_load`, up to the loop over the files
\* of a directory that is loaded file by file.
LoadPlugin ==
    /\ pc = "plugin"
    /\ to_load # <<>>
    /\ LET e == Head(to_load) IN
       IF is_path_a_file(e) /\ endswith(e.name, PY)
       THEN LET name == replace_py(e.name)
                istr == <<"tasks", DOT, "_", "plugins", DOT>> \o name
            IN \E o \in ImportOutcomes(istr) : \E exc \in Raises(o) :
                LET r == import_with_exception_details(exc, istr, name, stderr)
                    p == populate(global_ns, keep_module_name_prefix, istr, o.tasks, name)
                IN /\ loaded' = Record(loaded, istr, o)
                   /\ import_string' = istr
                   /\ module' = r.module
                   /\ stderr' = r.stderr
                   /\ IF r.module = None
                      THEN UNCHANGED <<global_ns, populated>>
                      ELSE /\ global_ns' = p.ns
                           /\ populated' = Call(istr, name, p.found)
                   /\ pc' = "plugin"
                   /\ UNCHANGED <<raised, fs, nfiles, stdout, sys_path, plugin, py_files>>
       ELSE IF is_path_a_folder(e)
       THEN LET name == <<"tasks", DOT, "_", "plugins", DOT>> \o e.name
            IN \E o \in ImportOutcomes(name) : \E exc \in Raises(o) :
                LET r == import_with_exception_details(exc, name, name, stderr)
                    any_task == populate(global_ns, keep_module_name_prefix,
                                         name, o.tasks, name)
                IN /\ loaded' = Record(loaded, name, o)
                   /\ module' = r.module
                   /\ stderr' = r.stderr
                   /\ UNCHANGED import_string
                   /\ IF r.module = None
                      THEN IF import_string = Unbound
                           THEN /\ raised' = "UnboundLocalError"
                                /\ pc' = "raised"
                                /\ UNCHANGED <<stdout, global_ns, populated, sys_path,
                                               plugin, py_files, fs, nfiles>>
                           ELSE /\ stdout' = Append(stdout, [skipping |-> import_string])
                                /\ pc' = "plugin"
                                /\ UNCHANGED <<raised, global_ns, populated, sys_path,
                                               plugin, py_files, fs, nfiles>>
                      ELSE /\ global_ns' = any_task.ns
                           /\ populated' = Call(name, name, any_task.found)
                           /\ IF ~any_task.found
                              THEN \E l \in Read(PluginDir(e.name),
                                               Listings(LooseFileNames, MaxFiles - nfiles)) :
                                   /\ sys_path' = Append(sys_path, e.name)
                                   /\ plugin' = e.name
                                   /\ fs' = Record(fs, PluginDir(e.name), l)
                                   /\ nfiles' = nfiles + Added(PluginDir(e.name), Len(l))
                                   /\ py_files' = l
                                   /\ pc' = IF l = <<>> THEN "plugin" ELSE "loose"
                              ELSE /\ pc' = "plugin"
                                   /\ UNCHANGED <<sys_path, plugin, py_files, fs, nfiles>>
                           /\ UNCHANGED <<raised, stdout>>
       ELSE /\ pc' = "plugin"
            /\ UNCHANGED <<raised, world, locals, global_ns, streams, sys_path,
                           plugin, py_files>>
    /\ to_load' = Tail(to_load)
    /\ UNCHANGED <<config, classified, TASKS_PLUGIN_DIRS, callvars, task_files, grnvars>>

\* One iteration of `for py_file in plugin.glob("*.py")`.
LoadLooseFile ==
    /\ pc = "loose"
    /\ py_files # <<>>
    /\ LET name == replace_py(Head(py_files))
           istr == <<"tasks", DOT, "_", "plugins", DOT>> \o plugin \o <<DOT>> \o name
       IN \E o \in ImportOutcomes(istr) : \E exc \in Raises(o) :
            LET r == import_with_exception_details(exc, istr, name, stderr)
                p == populate(global_ns, keep_module_name_prefix, istr, o.tasks, name)
            IN /\ loaded' = Record(loaded, istr, o)
               /\ import_string' = istr
               /\ module' = r.module
               /\ stderr' = r.stderr
               /\ IF r.module = None
                  THEN UNCHANGED <<global_ns, populated>>
                  ELSE /\ global_ns' = p.ns
                       /\ populated' = Call(istr, name, p.found)
    /\ py_files' = Tail(py_files)
    /\ pc' = IF Tail(py_files) = <<>> THEN "plugin" ELSE "loose"
    /\ UNCHANGED <<config, classified, TASKS_PLUGIN_DIRS, callvars, raised, fs, nfiles, task_files, stdout, sys_path,
                   to_load, plugin, grnvars>>

\* return global_ns
Return ==
    /\ pc = "plugin"
    /\ to_load = <<>>
    /\ pc' = "done"
    /\ UNCHANGED <<config, classified, TASKS_PLUGIN_DIRS, callvars, raised, world, task_files, locals, global_ns,
                   streams, sys_path, pluginvars, grnvars>>

\* ------------------------------------------------------------ get_root_ns
\* pkgutil.walk_packages(package.__path__)
WalkPackages ==
    /\ pc = "start"
    /\ entry = "get_root_ns"
    /\ \E present \in Read(Package, {s \in SUBSET Range(SubmoduleNames) :
                                        Cardinality(s) <= MaxFiles}) :
        /\ walk' = SelectSeq(SubmoduleNames, LAMBDA n : n \in present)
        /\ fs' = Record(fs, Package, present)
        /\ nfiles' = nfiles + Added(Package, Cardinality(present))
    /\ pc' = "import_submodules"
    /\ UNCHANGED <<config, classified, TASKS_PLUGIN_DIRS, callvars, raised, loaded, task_files, locals, global_ns,
                   streams, sys_path, pluginvars, all_submodules, valid_submodules, log>>

\* One iteration of the loop of import_submodules; when it is over,
\* get_root_ns keeps the submodules whose name does not start with "_".
ImportSubmodule ==
    /\ pc = "import_submodules"
    /\ IF walk = <<>>
       THEN /\ valid_submodules' = SelectSeq(all_submodules, LAMBDA n : ~startswith(n, "_"))
            /\ pc' = "merge"
            /\ UNCHANGED <<raised, loaded, walk, all_submodules, log>>
       ELSE LET name == Head(walk)
                istr == <<"taskfiles", DOT>> \o name
            IN \E o \in ImportOutcomes(istr) : \E exc \in Raises(o) :
                /\ loaded' = Record(loaded, istr, o)
                /\ walk' = Tail(walk)
                /\ UNCHANGED valid_submodules
                /\ IF exc = "none"
                   THEN /\ all_submodules' = Append(all_submodules, name)
                        /\ UNCHANGED <<raised, pc, log>>
                   ELSE IF exc \in CaughtByImportSubmodules
                   THEN /\ log' = Append(log, [level |-> "error", about |-> name])
                        /\ UNCHANGED <<raised, pc, all_submodules>>
                   ELSE /\ raised' = exc
                        /\ pc' = "raised"
                        /\ UNCHANGED <<all_submodules, log>>
    /\ UNCHANGED <<config, classified, TASKS_PLUGIN_DIRS, callvars, fs, nfiles, task_files, locals, global_ns,
                   streams, sys_path, pluginvars>>

\* One iteration of `for name, submodule in valid_submodules.items()`.
MergeSubmodule ==
    /\ pc = "merge"
    /\ valid_submodules # <<>>
    /\ LET name == Head(valid_submodules)
           istr == <<"taskfiles", DOT>> \o name
           tasks == loaded[istr].tasks
       IN global_ns' =
            IF keep_module_name_prefix
            THEN IF name # <<"core">>
                 THEN add_collection(global_ns, istr, tasks, module_name(istr))
                 ELSE add_tasks(global_ns, istr, tasks)
            ELSE add_tasks(global_ns, istr, tasks)
    /\ valid_submodules' = Tail(valid_submodules)
    /\ UNCHANGED <<config, classified, TASKS_PLUGIN_DIRS, callvars, pc, raised, world, task_files, locals, streams,
                   sys_path, pluginvars, walk, all_submodules, log>>

\* The local tasks of get_root_ns: `import local_tasks` under try/except/else.
\* Without a local_tasks module the import raises ImportError.
LocalTasks ==
    /\ pc = "merge"
    /\ valid_submodules = <<>>
    /\ sys_path' = IF TASKS_EXECUTABLE THEN <<Cwd>> \o sys_path ELSE sys_path
    /\ \E found \in Read(LocalTasksPy, {FALSE} \cup {nfiles < MaxFiles}) :
        /\ fs' = Record(fs, LocalTasksPy, found)
        /\ nfiles' = nfiles + Added(LocalTasksPy, IF found THEN 1 ELSE 0)
        /\ IF ~found
           THEN /\ log' = Append(log, [level |-> "debug", about |-> <<"local_tasks">>])
                /\ UNCHANGED <<loaded, global_ns>>
           ELSE \E o \in ImportOutcomes(<<"local_tasks">>) : \E exc \in Raises(o) :
                /\ loaded' = Record(loaded, <<"local_tasks">>, o)
                /\ IF exc = "ImportError"
                   THEN /\ log' = Append(log, [level |-> "debug", about |-> <<"local_tasks">>])
                        /\ UNCHANGED global_ns
                   ELSE IF exc \in CaughtByException
                   THEN /\ log' = Append(log, [level |-> "error", about |-> <<"local_tasks">>])
                        /\ UNCHANGED global_ns
                   ELSE /\ global_ns' = add_tasks(global_ns, <<"local_tasks">>, o.tasks)
                        /\ UNCHANGED log
    /\ pc' = "grn_plugins"
    /\ UNCHANGED <<config, classified, TASKS_PLUGIN_DIRS, callvars, raised, task_files, locals, streams, pluginvars,
                   walk, all_submodules, valid_submodules>>

\* `# Load plugins`: the plugin directory is located and nothing is loaded;
\* return ns.
ReturnNs ==
    /\ pc = "grn_plugins"
    /\ pc' = "done"
    /\ UNCHANGED <<config, classified, TASKS_PLUGIN_DIRS, callvars, raised, world, task_files, locals, global_ns,
                   streams, sys_path, pluginvars, grnvars>>

\* `ns = get_root_ns()` of the repository's __init__ and of
\* TaskfilesProgram.__init__: no handler surrounds the call, an exception
\* that leaves get_root_ns leaves the entry point.
TopLevel ==
    /\ entry = "get_root_ns"
    /\ pc = "raised"
    /\ pc' = "aborted"
    /\ UNCHANGED <<config, classified, TASKS_PLUGIN_DIRS, callvars, raised, world, task_files,
                   locals, global_ns, streams, sys_path, pluginvars, grnvars>>

Next ==
    \/ ResolveWhere
    \/ GlobBuiltin
    \/ ImportBuiltin
    \/ LocalOverride
    \/ PluginRegistration
    \/ LoadPlugin
    \/ LoadLooseFile
    \/ Return
    \/ WalkPackages
    \/ ImportSubmodule
    \/ MergeSubmodule
    \/ LocalTasks
    \/ ReturnNs
    \/ TopLevel

Spec == Init /\ [][Next]_vars

\* ------------------------------------------------------------ a second call
\* The caller calls the entry point again, with the setting it chooses: the
\* call starts from a new Collection and unbound locals, in the same process
\* (sys.modules, sys.path, the streams) over the same file system.
CallAgain ==
    /\ pc = "done"
    /\ calls < MaxCalls
    /\ calls' = calls + 1
    /\ prev' = [ns |-> global_ns, prefix |-> keep_module_name_prefix]
    /\ keep_module_name_prefix' \in BOOLEAN
    /\ pc' = "start"
    /\ global_ns' = EmptyNs
    /\ module' = Unbound
    /\ import_string' = Unbound
    /\ populated' = NoCall
    /\ task_files' = <<>>
    /\ to_load' = <<>>
    /\ plugin' = <<>>
    /\ py_files' = <<>>
    /\ walk' = <<>>
    /\ all_submodules' = <<>>
    /\ valid_submodules' = <<>>
    /\ UNCHANGED <<config, classified, TASKS_PLUGIN_DIRS, raised, world, streams, sys_path, log>>

NextTwice ==
    \/ Next
    \/ CallAgain

SpecTwice == Init /\ [][NextTwice]_vars

\* ------------------------------------------- a larger tree and environment
\* Places of the file system no code of discovery reads: a sub-package of the
\* built-in directory and the _plugins directory of the taskfiles package.
NestedPackage == <<"tasks", "sub">>
PackagePlugins == <<"taskfiles", "_plugins">>

\* A file system that holds, in each of these places, a module deep.py that
\* defines the task lint.
Tree ==
    [p \in {NestedPackage, PackagePlugins} |->
        << [name |-> <<"deep", PY>>, tasks |-> {"lint"}] >>]

\* The process over that file system, with TASKS_PLUGIN_DIRS unset or set.
InitWorld ==
    \E load \in {Unset, <<"False">>} : \E dirs \in PluginDirTexts :
        Start(Tree, [KEEP |-> Unset, LOAD |-> load, DIRS |-> dirs])

SpecWorld == InitWorld /\ [][Next]_vars

\* ------------------------------------------------- the import of a module
\* The process before it imports _discovery or taskfiles: the settings are
\* not defined yet.
InitConfig ==
    /\ entry \in {"find_and_import_tasks", "get_root_ns"}
    /\ environ \in Environs
    /\ keep_module_name_prefix = FALSE
    /\ TASKS_LOAD_PLUGINS = FALSE
    /\ TASKS_EXECUTABLE = FALSE
    /\ TASKS_PLUGIN_DIRS = <<Unbound>>
    /\ where = [type |-> "Path", attribute |-> "n/a"]
    /\ pc = "import"
    /\ Fresh(<<>>)

\* The module level of _discovery.py.  The flatten setting is the default of
\* the parameter keep_module_name_prefix.
ImportDiscovery ==
    /\ pc = "import"
    /\ entry = "find_and_import_tasks"
    /\ TASKS_LOAD_PLUGINS' = parse_setting(environ.LOAD, <<"True">>)
    /\ TASKS_PLUGIN_DIRS' = parse_plugin_dirs(environ.DIRS)
    /\ keep_module_name_prefix' = parse_setting(environ.KEEP, <<"False">>)
    /\ pc' = "start"
    /\ UNCHANGED <<entry, TASKS_EXECUTABLE, environ, where, calls, prev, classified,
                   raised, world,
                   task_files, locals, global_ns, streams, sys_path, pluginvars,
                   grnvars>>

\* logging.error(f"Reading env var {name}: {error}") for the settings of
\* names whose text literal_eval rejects.
ReadingErrors(names) ==
    LET all == <<"KEEP", "LOAD">>
        bad == SelectSeq(all, LAMBDA n : n \in names)
    IN [i \in 1..Len(bad) |-> [level |-> "error", about |-> <<bad[i]>>]]

\* The module level of taskfiles/__init__.py; TASKS_EXECUTABLE is
\* `sys.argv[0] is None`.
ImportTaskfiles ==
    /\ pc = "import"
    /\ entry = "get_root_ns"
    /\ keep_module_name_prefix' = parse_setting(environ.KEEP, <<"False">>)
    /\ TASKS_LOAD_PLUGINS' = parse_setting(environ.LOAD, <<"True">>)
    /\ TASKS_EXECUTABLE' \in BOOLEAN
    /\ TASKS_PLUGIN_DIRS' = parse_plugin_dirs(environ.DIRS)
    /\ log' = log \o ReadingErrors(
            {n \in {"KEEP"} : literal_eval(getenv(environ.KEEP, <<"False">>)).raises
                                 \in CaughtByException}
            \cup {n \in {"LOAD"} : literal_eval(getenv(environ.LOAD, <<"True">>)).raises
                                    \in CaughtByException})
    /\ pc' = "start"
    /\ UNCHANGED <<entry, environ, where, calls, prev, classified, raised, world,
                   task_files,
                   locals, global_ns, streams, sys_path, pluginvars, walk,
                   all_submodules, valid_submodules>>

NextConfig ==
    \/ ImportDiscovery
    \/ ImportTaskfiles

SpecConfig == InitConfig /\ [][NextConfig]_vars

\* ------------------------------------------------ modules of known text
\* tasks/git.py defines the task push and has
\* `from ._utils import ... picker ...` at module scope; tasks/_utils.py
\* defines picker with @task (the task lint here).
SourceTree ==
    [p \in {Source(<<"tasks", DOT, "git">>), Source(<<"tasks", DOT, "_", "utils">>)} |->
        IF p = Source(<<"tasks", DOT, "git">>)
        THEN [defines |-> {"push"},
              imports |-> {[from |-> <<"tasks", DOT, "_", "utils">>, name |-> "lint"]}]
        ELSE [defines |-> {"lint"}, imports |-> {}]]

\* The process over a file system that holds these two files.
InitImports ==
    \E load \in {Unset, <<"False">>} :
        Start(SourceTree, [KEEP |-> Unset, LOAD |-> load, DIRS |-> Unset])

SpecImports == InitImports /\ [][Next]_vars

\* ------------------------------------------- the classification of an entry
\* A caller holds one directory entry, as the loop over to_load does, and
\* has asked neither question about it yet.
InitClassify ==
    /\ entry = "find_and_import_tasks"
    /\ environ = [KEEP |-> Unset, LOAD |-> Unset, DIRS |-> Unset]
    /\ keep_module_name_prefix = FALSE
    /\ TASKS_LOAD_PLUGINS = TRUE
    /\ TASKS_EXECUTABLE = FALSE
    /\ TASKS_PLUGIN_DIRS = parse_plugin_dirs(Unset)
    /\ where = [type |-> "Path", attribute |-> "n/a"]
    /\ pc = "classify"
    /\ raised = "none"
    /\ fs = <<>>
    /\ nfiles = 0
    /\ loaded = <<>>
    /\ task_files = <<>>
    /\ module = Unbound
    /\ import_string = Unbound
    /\ populated = NoCall
    /\ global_ns = EmptyNs
    /\ stderr = <<>>
    /\ stdout = <<>>
    /\ sys_path = <<>>
    /\ \E p \in PathEntries : to_load = <<p>>
    /\ plugin = <<>>
    /\ py_files = <<>>
    /\ walk = <<>>
    /\ all_submodules = <<>>
    /\ valid_submodules = <<>>
    /\ log = <<>>
    /\ calls = 0
    /\ prev = [ns |-> EmptyNs, prefix |-> FALSE]
    /\ classified = <<>>

\* is_path_a_file(plugin)
ClassifyFile ==
    /\ pc = "classify"
    /\ "is_path_a_file" \notin DOMAIN classified
    /\ classified' = Record(classified, "is_path_a_file", is_path_a_file(Head(to_load)))
    /\ UNCHANGED <<config, TASKS_PLUGIN_DIRS, callvars, pc, raised, world, task_files,
                   locals, global_ns, streams, sys_path, pluginvars, grnvars>>

\* is_path_a_folder(plugin)
ClassifyFolder ==
    /\ pc = "classify"
    /\ "is_path_a_folder" \notin DOMAIN classified
    /\ classified' = Record(classified, "is_path_a_folder",
                            is_path_a_folder(Head(to_load)))
    /\ UNCHANGED <<config, TASKS_PLUGIN_DIRS, callvars, pc, raised, world, task_files,
                   locals, global_ns, streams, sys_path, pluginvars, grnvars>>

NextClassify ==
    \/ ClassifyFile
    \/ ClassifyFolder

SpecClassify == InitClassify /\ [][NextClassify]_vars

\* ================================================================ claims
Fit == entry = "find_and_import_tasks"
Grn == entry = "get_root_ns"
Flat == ~keep_module_name_prefix

LocalTasksModule == <<"local_tasks">>

Imported(m) == m \in DOMAIN loaded
ImportedOk(m) == m \in DOMAIN loaded /\ loaded[m].ok
ImportFailed(m) == m \in DOMAIN loaded /\ ~loaded[m].ok
TasksOf(m) == IF ImportedOk(m) THEN loaded[m].tasks ELSE {}

\* The import strings discovery gives to the files of the file system.
BuiltinModule(f) == <<"tasks", DOT>> \o stem(f)
PluginModule(e) == <<"tasks", DOT, "_", "plugins", DOT>> \o replace_py(e.name)
LooseModule(d, f) == <<"tasks", DOT, "_", "plugins", DOT>> \o d \o <<DOT>> \o replace_py(f)
Submodule(n) == <<"taskfiles", DOT>> \o n

\* The file a module was imported from, by its name.
FileOf(m) == module_name(m) \o <<PY>>

\* m is a module inside the package pkg.
IsUnder(m, pkg) ==
    Len(m) > Len(pkg) + 1 /\ SubSeq(m, 1, Len(pkg) + 1) = pkg \o <<DOT>>

\* The eligible files of the built-in directory, in enumeration order.
EligibleBuiltins ==
    IF BuiltinDir \in DOMAIN fs
    THEN SelectSeq(fs[BuiltinDir], LAMBDA f : ~startswith(f, "_")
                       /\ f # <<"tasks", PY>> /\ f # <<"conftest", PY>>)
    ELSE <<>>

BuiltinModules == {BuiltinModule(EligibleBuiltins[i]) : i \in 1..Len(EligibleBuiltins)}

\* The directories of the plugin root.
PluginFolders ==
    IF PluginRoot \in DOMAIN fs
    THEN {e \in Range(fs[PluginRoot]) : e.kind = "dir" /\ e.name # <<"_", "_pycache__">>}
    ELSE {}

\* Where the namespace holds task t of module m.
AtRoot(m, t) == global_ns.tasks[t] = m
InSubNamespace(m, t) ==
    \E c \in DOMAIN global_ns.collections : global_ns.collections[c][t] = m
NameAtRoot(t) == global_ns.tasks[t] # NoTask

\* The namespace contains task t of module m: in prefixed mode under a
\* sub-namespace, in flat mode under its name.
Contains(m, t) == IF keep_module_name_prefix THEN InSubNamespace(m, t) ELSE NameAtRoot(t)

\* The modules whose tasks the namespace holds.
ModulesInNamespace ==
    ({global_ns.tasks[t] : t \in TaskNames}
     \cup UNION {{global_ns.collections[c][t] : t \in TaskNames} :
                    c \in DOMAIN global_ns.collections})
    \ {NoTask}

DiagnosticsAbout(m) == {i \in 1..Len(stderr) : stderr[i].module = m}

\* C1: isolation in the built-in phase of find_and_import_tasks: when a
\* built-in module k raises on import, the call does not raise, the returned
\* namespace contains every task of the other built-in modules, and exactly
\* one diagnostic about k is on stderr.
C1_BuiltinIsolation ==
    Fit => \A k \in BuiltinModules : ImportFailed(k) =>
        /\ pc # "raised"
        /\ pc = "done" =>
            /\ \A m \in BuiltinModules \ {k} : \A t \in TasksOf(m) : Contains(m, t)
            /\ Cardinality(DiagnosticsAbout(k)) = 1

\* C2: in get_root_ns an exception of any type raised by the import of a
\* built-in submodule is not propagated: it is reported, the submodule is
\* skipped and the other non-private submodules are merged.
C2_SubmoduleIsolation ==
    Grn => \A k \in DOMAIN loaded : (IsUnder(k, Package) /\ ImportFailed(k)) =>
        /\ pc # "raised"
        /\ \E i \in 1..Len(log) : log[i].level = "error" /\ Submodule(log[i].about) = k
        /\ pc = "done" =>
            \A m \in DOMAIN loaded :
                (IsUnder(m, Package) /\ ~startswith(module_name(m), "_")) =>
                    \A t \in TasksOf(m) :
                        AtRoot(m, t) \/ InSubNamespace(m, t) \/ NameAtRoot(t)

\* C3: a local_tasks module that raises on import is reported and is not
\* fatal: nothing is merged on its behalf and the call does not raise.
C3_LocalFailureNonFatal ==
    ImportFailed(LocalTasksModule) =>
        /\ pc # "raised"
        /\ Fit => DiagnosticsAbout(LocalTasksModule) # {}
        /\ Grn => \E i \in 1..Len(log) : log[i].about = LocalTasksModule
        /\ LocalTasksModule \notin DOMAIN global_ns.collections
        /\ populated.name # LocalTasksModule
\* The modules discovery merges, in merge order, as the file system gives
\* them: the eligible built-in files in enumeration order, then the local
\* override, then the plugin entries (a directory's package, then its files
\* when they were loaded one by one).
RECURSIVE PluginOrder(_)
PluginOrder(es) ==
    IF es = <<>> THEN <<>>
    ELSE LET e == Head(es)
             d == PluginDir(e.name)
             here == IF e.kind = "file" /\ endswith(e.name, PY)
                     THEN <<PluginModule(e)>>
                     ELSE IF e \in PluginFolders
                     THEN <<PluginModule(e)>>
                          \o (IF d \in DOMAIN fs
                              THEN [i \in 1..Len(fs[d]) |-> LooseModule(e.name, fs[d][i])]
                              ELSE <<>>)
                     ELSE <<>>
         IN here \o PluginOrder(Tail(es))

PublicSubmodules ==
    IF Package \in DOMAIN fs
    THEN SelectSeq(SubmoduleNames, LAMBDA n : n \in fs[Package] /\ n[1] # "_")
    ELSE <<>>

SubmoduleModules == {Submodule(PublicSubmodules[i]) : i \in 1..Len(PublicSubmodules)}

LocalOrder ==
    IF LocalTasksPy \in DOMAIN fs /\ fs[LocalTasksPy] THEN <<LocalTasksModule>> ELSE <<>>

MergeOrder ==
    IF Fit
    THEN [i \in 1..Len(EligibleBuiltins) |-> BuiltinModule(EligibleBuiltins[i])]
         \o LocalOrder
         \o (IF PluginRoot \in DOMAIN fs THEN PluginOrder(fs[PluginRoot]) ELSE <<>>)
    ELSE [i \in 1..Len(PublicSubmodules) |-> Submodule(PublicSubmodules[i])]
         \o LocalOrder

\* The last module of the merge order that defines task t.
Winner(t) ==
    LET order == MergeOrder
        defining == {i \in 1..Len(order) : t \in TasksOf(order[i])}
    IN IF defining = {} THEN NoTask
       ELSE order[CHOOSE i \in defining : \A j \in defining : j <= i]

\* C4: last-write-wins in flat mode: the returned namespace resolves every
\* task name to the last module of the merge order that defines it; a
\* collision raises nothing and prints nothing; a task of the local override
\* never resolves to a built-in module.
C4_LastWriteWins ==
    (pc = "done" /\ Flat) =>
        /\ \A t \in TaskNames : global_ns.tasks[t] = Winner(t)
        /\ global_ns.collections = <<>>
        /\ \A i \in 1..Len(stderr) : ImportFailed(stderr[i].module)
        /\ \A i \in 1..Len(log) :
            log[i].about = LocalTasksModule \/ ImportFailed(Submodule(log[i].about))
        /\ \A t \in TasksOf(LocalTasksModule) :
            global_ns.tasks[t] \notin BuiltinModules \cup SubmoduleModules

\* C4 happens: a built-in module and the local override both define a task,
\* and the returned flat namespace resolves it to the local override.
C4_Witness ==
    /\ pc = "done" /\ Flat /\ Fit
    /\ \E t \in TaskNames :
        /\ t \in TasksOf(BuiltinModule(<<"git", PY>>))
        /\ t \in TasksOf(LocalTasksModule)
        /\ global_ns.tasks[t] = LocalTasksModule

\* C5: the local override is always merged flat: each task of a local_tasks
\* module that imported is in the root namespace under its own name, in
\* either mode, and there is no sub-namespace local_tasks.
C5_LocalAlwaysFlat ==
    (pc = "done" /\ ImportedOk(LocalTasksModule)) =>
        /\ \A t \in TasksOf(LocalTasksModule) : NameAtRoot(t)
        /\ LocalTasksModule \notin DOMAIN global_ns.collections

\* C6: populate returns True exactly when the call added at least one task,
\* in either mode; for a module without tasks it returns False.
C6_PopulateReturn ==
    populated # NoCall => (populated.found <=> TasksOf(populated.module) # {})

\* C7: a plugin directory whose package imports and defines no task has
\* every .py file inside it imported and merged, in either mode.
C7_EmptyPackageFallback ==
    (Fit /\ pc = "done") =>
        \A e \in PluginFolders :
            (ImportedOk(PluginModule(e)) /\ TasksOf(PluginModule(e)) = {}) =>
                /\ PluginDir(e.name) \in DOMAIN fs
                /\ \A f \in Range(fs[PluginDir(e.name)]) :
                    /\ Imported(LooseModule(e.name, f))
                    /\ \A t \in TasksOf(LooseModule(e.name, f)) :
                        Contains(LooseModule(e.name, f), t)

\* C8: a plugin directory whose package import contributes a task is never
\* loaded file by file: no module inside it is imported and the directory is
\* not put on sys.path.
C8_NoPerFileLoading ==
    \A e \in PluginFolders :
        (ImportedOk(PluginModule(e)) /\ TasksOf(PluginModule(e)) # {}) =>
            /\ e.name \notin Range(sys_path)
            /\ PluginDir(e.name) \notin DOMAIN fs
            /\ \A m \in DOMAIN loaded : ~IsUnder(m, PluginModule(e))

\* C8 happens: the call returned after it merged a plugin package that
\* defines a task.
C8_Witness ==
    /\ pc = "done" /\ Fit /\ Flat
    /\ \E e \in PluginFolders :
        /\ ImportedOk(PluginModule(e))
        /\ \E t \in TasksOf(PluginModule(e)) : AtRoot(PluginModule(e), t)

\* C9: a file whose name begins with "_" or is tasks.py or conftest.py never
\* has a task in the namespace, in any phase and under any configuration.
C9_ReservedExclusion ==
    \A m \in ModulesInNamespace :
        /\ ~startswith(FileOf(m), "_")
        /\ FileOf(m) # <<"tasks", PY>>
        /\ FileOf(m) # <<"conftest", PY>>
\* The task names a namespace reaches, at its root or in a sub-namespace.
Names(ns) ==
    {t \in TaskNames :
        \/ ns.tasks[t] # NoTask
        \/ \E c \in DOMAIN ns.collections : ns.collections[c][t] # NoTask}

\* The modules that define task t in a namespace.
Definers(ns, t) ==
    ({ns.tasks[t]} \cup {ns.collections[c][t] : c \in DOMAIN ns.collections}) \ {NoTask}

\* Another imported module has the name of m: their tasks or sub-namespaces
\* may overwrite each other.
Collides(m) == \E m2 \in DOMAIN loaded \ {m} : module_name(m2) = module_name(m)

\* C10: flat and prefixed discovery over the same modules reach the same
\* tasks: a task name reachable in the namespace of one call and in no way
\* in the namespace of the call with the other setting is defined by a
\* module whose name collides with another module's.
C10_FlattenPrefixEquivalence ==
    (pc = "done" /\ calls > 0 /\ prev.prefix # keep_module_name_prefix) =>
        /\ \A t \in Names(prev.ns) \ Names(global_ns) :
            \E m \in Definers(prev.ns, t) : Collides(m)
        /\ \A t \in Names(global_ns) \ Names(prev.ns) :
            \E m \in Definers(global_ns, t) : Collides(m)

C12_TotalFailureFallback ==
    (Grn /\ raised # "none" /\ pc # "raised") =>
        /\ pc = "done"
        /\ global_ns = EmptyNs
        /\ \E i \in 1..Len(log) : log[i].level = "error"

\* The package of the internal plugin directory.
PluginsPackage == <<"tasks", DOT, "_", "plugins">>

\* C14: with the load-plugins toggle off, find_and_import_tasks imports no
\* entry of a plugin directory, reads and registers no plugin directory,
\* prints no notice, and the namespace it builds holds tasks of built-in
\* modules and of the local override only.
C14_PluginsDisabled ==
    (Fit /\ ~TASKS_LOAD_PLUGINS) =>
        /\ \A m \in DOMAIN loaded : ~IsUnder(m, PluginsPackage)
        /\ InternalPlugins \notin Range(TASKS_PLUGIN_DIRS)
        /\ PluginRoot \notin DOMAIN fs /\ PluginRootInit \notin DOMAIN fs
        /\ \A e \in Range(TASKS_PLUGIN_DIRS) : e \notin DOMAIN fs
        /\ stdout = <<>>
        /\ ModulesInNamespace \subseteq BuiltinModules \cup {LocalTasksModule}

\* C14 happens: the call returned with the toggle off and the namespace
\* holds a task of a built-in module.
C14_Witness ==
    /\ Fit /\ ~TASKS_LOAD_PLUGINS /\ pc = "done"
    /\ ModulesInNamespace \cap BuiltinModules # {}

\* The modules named core of the two entry points.
CoreModules == {BuiltinModule(<<"core", PY>>), Submodule(<<"core">>)}

\* C16: the top-level module exception: in prefixed mode the tasks of the
\* module named core are in the root namespace and there is no sub-namespace
\* core; no other module but the local override has a task at the root.
C16_CoreIsTopLevel ==
    (pc = "done" /\ keep_module_name_prefix) =>
        /\ \A m \in CoreModules : (ImportedOk(m) /\ TasksOf(m) # {}) =>
                /\ \A t \in TasksOf(m) : NameAtRoot(t)
                /\ <<"core">> \notin DOMAIN global_ns.collections
        /\ \A t \in TaskNames :
                global_ns.tasks[t] \in {NoTask, LocalTasksModule} \cup CoreModules

\* The call ended in its argument resolution: it raised before it read the
\* built-in directory.
RaisedInResolution == Fit /\ pc = "raised" /\ BuiltinDir \notin DOMAIN fs

\* C20: argument resolution fails only as documented: with
\* NotImplementedError when `where` is neither a Path nor a str, with
\* invoke.exceptions.Failure when it is a str naming an attribute that is
\* absent, None or an empty sequence, and with nothing else.
C20_ArgumentResolution ==
    /\ RaisedInResolution =>
        /\ raised \in {"NotImplementedError", "Failure"}
        /\ raised = "NotImplementedError" <=> where.type \notin {"Path", "str"}
    /\ (Fit /\ pc # "start" /\ where.type = "str"
            /\ where.attribute \in {"absent", "None", "empty"}) =>
        /\ RaisedInResolution
        /\ raised = "Failure"

\* The texts of a setting that are no Python literal.
Unparsable == {<<"yes">>, <<>>}

\* C15: reading the configuration never raises: after the import of the
\* module a toggle whose text cannot be parsed is False (plugin loading
\* off, flat namespace) and TASKS_PLUGIN_DIRS is a list.
C15_ConfigNeverRaises ==
    /\ pc # "raised" /\ raised = "none"
    /\ pc = "start" =>
        /\ environ.LOAD \in Unparsable => TASKS_LOAD_PLUGINS = FALSE
        /\ environ.KEEP \in Unparsable => keep_module_name_prefix = FALSE
        /\ TASKS_PLUGIN_DIRS # <<Unbound>>
        /\ Len(TASKS_PLUGIN_DIRS) >= 1

\* C15 happens: the module was imported with a plugin toggle and a flatten
\* toggle that cannot be parsed.
C15_Witness ==
    /\ pc = "start"
    /\ environ.LOAD = <<"yes">>
    /\ environ.KEEP = <<>>
    /\ ~TASKS_LOAD_PLUGINS

\* The module a file of one of the unread places would be imported as.
NestedModule(f) == <<"tasks", DOT, "sub", DOT>> \o stem(f)
PackagePluginModule(f) == <<"taskfiles", DOT, "_", "plugins", DOT>> \o stem(f)

\* C13: get_root_ns loads plugins when they are enabled: a module of the
\* package's _plugins directory that defines a task is imported and the
\* task is in the returned namespace.
C13_RootNsLoadsPlugins ==
    (Grn /\ pc = "done" /\ TASKS_LOAD_PLUGINS /\ PackagePlugins \in DOMAIN fs) =>
        \A f \in Range(fs[PackagePlugins]) : f.tasks # {} =>
            /\ ImportedOk(PackagePluginModule(f.name))
            /\ f.tasks \subseteq Names(global_ns)

\* The loop over TASKS_PLUGIN_DIRS has run in this call.
PluginDirsVisited ==
    Fit /\ TASKS_LOAD_PLUGINS /\ pc \in {"plugin", "loose", "done"}

\* C17: external plugin directories are never silently ignored: once the
\* plugin phase has gone through TASKS_PLUGIN_DIRS, a not-implemented notice
\* naming each configured entry is on stdout, and no module was imported
\* from anywhere but the tasks package and local_tasks.
C17_ExternalDirsNoticed ==
    PluginDirsVisited =>
        /\ \A e \in Range(parse_plugin_dirs(environ.DIRS)) \ {<<>>} :
                \E i \in 1..Len(stdout) : stdout[i] = [not_implemented |-> e]
        /\ \A m \in DOMAIN loaded :
                m = LocalTasksModule \/ IsUnder(m, <<"tasks">>)

\* C18: the built-in phase enumerates the task package recursively: a
\* non-private module of a sub-package of the built-in directory is
\* imported and its tasks are in the returned namespace.
C18_RecursiveBuiltins ==
    (Fit /\ pc = "done" /\ NestedPackage \in DOMAIN fs) =>
        \A f \in Range(fs[NestedPackage]) : is_a_task_module(f.name) =>
            /\ ImportedOk(NestedModule(f.name))
            /\ f.tasks \subseteq Names(global_ns)

\* C19: the configuration is immutable across discovery: no step of a call
\* changes the plugin-loading toggle, the flatten setting or the elements of
\* TASKS_PLUGIN_DIRS.
C19_ConfigImmutable ==
    [][UNCHANGED <<TASKS_LOAD_PLUGINS, keep_module_name_prefix, TASKS_PLUGIN_DIRS>>]_vars

\* The entry the classification was asked about.
Classified == Head(to_load)

\* C25: symbolic links are classified by their target: is_path_a_file is true
\* exactly for a regular file and a link that resolves to a regular file;
\* is_path_a_folder is true exactly for a directory and a link that resolves
\* to a directory, unless the entry is named __pycache__; a broken link is
\* neither, and no entry is both a file and a folder.
C25_SymlinksByTarget ==
    LET p == Classified
        file == p.kind = "file" \/ (p.kind = "symlink" /\ p.link.target = "file")
        folder == /\ p.name # <<"_", "_pycache__">>
                  /\ p.kind = "dir" \/ (p.kind = "symlink" /\ p.link.target = "dir")
    IN /\ "is_path_a_file" \in DOMAIN classified =>
            classified["is_path_a_file"] = file
       /\ "is_path_a_folder" \in DOMAIN classified =>
            classified["is_path_a_folder"] = folder
       /\ DOMAIN classified = {"is_path_a_file", "is_path_a_folder"} =>
            ~(classified["is_path_a_file"] /\ classified["is_path_a_folder"])

\* The tasks module m defines: those of its text when the text is known,
\* those of its __dict__ otherwise.
DefinedIn(m) == IF Source(m) \in DOMAIN fs THEN fs[Source(m)].defines ELSE TasksOf(m)

\* C30: in flat mode every task of the returned namespace was defined by an
\* eligible candidate module: the module the namespace resolves the name to
\* defines it, and a task defined in a private-prefixed module an eligible
\* module imports at module scope is not in the namespace on that account.
C30_OnlyOwnTasks ==
    (pc = "done" /\ Flat) =>
        \A t \in TaskNames : global_ns.tasks[t] # NoTask =>
            t \in DefinedIn(global_ns.tasks[t])

\* A module of the internal plugin directory was imported.
PluginImported == \E m \in DOMAIN loaded : IsUnder(m, PluginsPackage)

\* Every eligible file of the built-in directory was imported and, when the
\* import succeeded, merged.
BuiltinsMerged ==
    /\ BuiltinDir \in DOMAIN fs
    /\ \A m \in BuiltinModules : Imported(m) /\ \A t \in TasksOf(m) : Contains(m, t)

\* C21: phase ordering in find_and_import_tasks: the step that imports the
\* local override starts with every built-in module imported and merged; the
\* step that imports the first plugin entry starts with the built-in phase
\* and the local phase over and the local override merged; no step merges a
\* built-in module or the local override once a plugin entry was imported.
C21_PhaseOrdering ==
    [][Fit =>
        /\ (~Imported(LocalTasksModule) /\ Imported(LocalTasksModule)') =>
                BuiltinsMerged
        /\ (~PluginImported /\ PluginImported') =>
                /\ BuiltinsMerged
                /\ task_files = <<>>
                /\ LocalTasksPy \in DOMAIN fs
                /\ \A t \in TasksOf(LocalTasksModule) : Contains(LocalTasksModule, t)
        /\ (populated' # populated
                /\ populated'.module \in BuiltinModules \cup {LocalTasksModule}) =>
                ~PluginImported'
      ]_vars

\* C21 happens: the call returned after it merged a built-in module and the
\* local override and imported a plugin entry.
C21_Witness ==
    /\ Fit /\ pc = "done"
    /\ \E m \in BuiltinModules : TasksOf(m) # {}
    /\ TasksOf(LocalTasksModule) # {}
    /\ PluginImported

\* C22: termination with a namespace: a run of find_and_import_tasks with a
\* Path `where` is never aborted by a phase; a run that raised has no further
\* step and returns no namespace.
C22_NoPhaseAborts ==
    (Fit /\ where.type = "Path") => (pc # "raised" /\ raised = "none")

\* C23: isolation in the plugin phase: when the import of a plugin directory
\* as a package raises, the call does not raise, the directory is reported,
\* and the returned call has processed every other entry of the plugin root.
C23_PluginIsolation ==
    Fit => \A e \in PluginFolders : ImportFailed(PluginModule(e)) =>
        /\ pc # "raised"
        /\ DiagnosticsAbout(PluginModule(e)) # {}
        /\ pc = "done" =>
            \A o \in Range(fs[PluginRoot]) :
                (o.kind = "file" /\ endswith(o.name, PY)) => Imported(PluginModule(o))

\* C24: directories are put on sys.path only temporarily: when the call has
\* returned, sys.path holds no entry that discovery added.
C24_SysPathRestored ==
    pc = "done" => sys_path = <<>>

\* C26: classification skips are silent: the built-in phase of either entry
\* point issues no import for a candidate whose name starts with "_" or is
\* tasks.py or conftest.py, and logs nothing about one.
C26_SilentSkips ==
    /\ BuiltinDir \in DOMAIN fs =>
            \A f \in Range(fs[BuiltinDir]) :
                ~is_a_task_module(f) =>
                    /\ ~Imported(BuiltinModule(f))
                    /\ DiagnosticsAbout(BuiltinModule(f)) = {}
    /\ Package \in DOMAIN fs =>
            \A n \in fs[Package] :
                ~is_a_task_module(n \o <<PY>>) =>
                    /\ ~Imported(Submodule(n))
                    /\ \A i \in 1..Len(log) : log[i].about # n

\* C27: find_and_import_tasks never writes to standard output.
C27_NothingOnStdout ==
    Fit => stdout = <<>>

\* The fallback of plugin directory e has started: its files were listed, it
\* was put on sys.path or a module inside it was imported.
PerFileLoading(e) ==
    \/ PluginDir(e.name) \in DOMAIN fs
    \/ e.name \in Range(sys_path)
    \/ \E m \in DOMAIN loaded : IsUnder(m, PluginModule(e))

\* C28: the loose-collection fallback is reached only through a successful
\* package import: the step that starts the fallback of a plugin directory
\* is the one whose populate call for the imported package returned False;
\* a file of the directory is imported only after that; for a directory
\* whose package import raised no fallback starts and no module of it has a
\* task in the namespace.
C28_FallbackAfterPackage ==
    [][\A e \in PluginFolders' :
        LET pkg == PluginModule(e) IN
        /\ PerFileLoading(e)' =>
                \/ PerFileLoading(e)
                \/ /\ ImportedOk(pkg)'
                   /\ module' = pkg
                   /\ populated' = Call(pkg, pkg, FALSE)
        /\ (\E m \in DOMAIN loaded' \ DOMAIN loaded : IsUnder(m, pkg)) =>
                /\ ImportedOk(pkg)
                /\ PluginDir(e.name) \in DOMAIN fs
        /\ ImportFailed(pkg)' =>
                /\ ~PerFileLoading(e)'
                /\ \A m \in ModulesInNamespace' : ~IsUnder(m, pkg) /\ m # pkg
      ]_vars

\* C28 happens: the call returned after the package import of a plugin
\* directory raised and the directory was skipped.
C28_Witness ==
    /\ Fit /\ pc = "done"
    /\ \E e \in PluginFolders :
        /\ ImportFailed(PluginModule(e))
        /\ DiagnosticsAbout(PluginModule(e)) # {}
        /\ stdout # <<>>

\* The modules find_and_import_tasks imported and merged under a name of
\* their own: the built-in modules and the modules of the plugin phase.
OwnSubNamespace ==
    {m \in DOMAIN loaded : IsUnder(m, <<"tasks">>) /\ ImportedOk(m)}

\* C29: in prefixed mode every successfully imported module keeps its
\* sub-namespace in the returned namespace: each of its tasks is reachable
\* in a sub-namespace that resolves it to that module.
C29_SubNamespaceKept ==
    (Fit /\ pc = "done" /\ keep_module_name_prefix) =>
        \A m \in OwnSubNamespace : \A t \in TasksOf(m) : InSubNamespace(m, t)
====
